---- MODULE Spec2Model ----
(***************************************************************************)
(* Model of app.py: the OCR line classifier and header detector, the      *)
(* normalizer, the plan fingerprint, and the Excel-backed plan catalog    *)
(* with its match-then-save Streamlit flow.                               *)
(*                                                                        *)
(* Text is modelled with TLA+ strings (Len, SubSeq and \o work on them),  *)
(* so substring tests, lower-casing, the percentage regex and float       *)
(* parsing are computed character by character as the code computes them. *)
(* A float is a fixed-point integer counting units of 10^-CasasDecimais.  *)
(* An optional value (None or a value) is <<>> or <<v>>.                  *)
(***************************************************************************)
EXTENDS Integers, Sequences, FiniteSets, TLC

(* ------------------------------ bounds -------------------------------- *)
CasasDecimais == 5
MaxLines == 3
MaxEdits == 1
MaxRegs == 3
MaxCommits == 2

(* --------------------------- text helpers ------------------------------ *)
None == <<>>

Some(v) == <<v>>

RECURSIVE Pow10(_)
Pow10(n) == IF n = 0 THEN 1 ELSE 10 * Pow10(n - 1)

Unidade == Pow10(CasasDecimais)

Ch(s, i) == SubSeq(s, i, i)

Digitos == {"0", "1", "2", "3", "4", "5", "6", "7", "8", "9"}

DigitVal(c) ==
    CASE c = "0" -> 0 [] c = "1" -> 1 [] c = "2" -> 2 [] c = "3" -> 3
      [] c = "4" -> 4 [] c = "5" -> 5 [] c = "6" -> 6 [] c = "7" -> 7
      [] c = "8" -> 8 [] c = "9" -> 9

\* str.lower(), one character
LowerChar(c) ==
    CASE c = "A" -> "a" [] c = "B" -> "b" [] c = "C" -> "c" [] c = "D" -> "d"
      [] c = "E" -> "e" [] c = "F" -> "f" [] c = "G" -> "g" [] c = "H" -> "h"
      [] c = "I" -> "i" [] c = "J" -> "j" [] c = "K" -> "k" [] c = "L" -> "l"
      [] c = "M" -> "m" [] c = "N" -> "n" [] c = "O" -> "o" [] c = "P" -> "p"
      [] c = "Q" -> "q" [] c = "R" -> "r" [] c = "S" -> "s" [] c = "T" -> "t"
      [] c = "U" -> "u" [] c = "V" -> "v" [] c = "W" -> "w" [] c = "X" -> "x"
      [] c = "Y" -> "y" [] c = "Z" -> "z" [] OTHER -> c

\* str.upper(), one character
UpperChar(c) ==
    CASE c = "a" -> "A" [] c = "b" -> "B" [] c = "c" -> "C" [] c = "d" -> "D"
      [] c = "e" -> "E" [] c = "f" -> "F" [] c = "g" -> "G" [] c = "h" -> "H"
      [] c = "i" -> "I" [] c = "j" -> "J" [] c = "k" -> "K" [] c = "l" -> "L"
      [] c = "m" -> "M" [] c = "n" -> "N" [] c = "o" -> "O" [] c = "p" -> "P"
      [] c = "q" -> "Q" [] c = "r" -> "R" [] c = "s" -> "S" [] c = "t" -> "T"
      [] c = "u" -> "U" [] c = "v" -> "V" [] c = "w" -> "W" [] c = "x" -> "X"
      [] c = "y" -> "Y" [] c = "z" -> "Z" [] OTHER -> c

RECURSIVE Lower(_)
Lower(s) == IF s = "" THEN "" ELSE LowerChar(Ch(s, 1)) \o Lower(SubSeq(s, 2, Len(s)))

RECURSIVE Upper(_)
Upper(s) == IF s = "" THEN "" ELSE UpperChar(Ch(s, 1)) \o Upper(SubSeq(s, 2, Len(s)))

\* Python's `sub in s`
Contains(s, sub) ==
    \E i \in 1..(Len(s) - Len(sub) + 1) : SubSeq(s, i, i + Len(sub) - 1) = sub

\* str.replace(old, new) for a one-character old
RECURSIVE Replace(_, _, _)
Replace(s, old, new) ==
    IF s = "" THEN ""
    ELSE (IF Ch(s, 1) = old THEN new ELSE Ch(s, 1)) \o Replace(SubSeq(s, 2, Len(s)), old, new)

\* first index >= i of s that is not a digit (Len(s)+1 if none)
RECURSIVE FimDigitos(_, _)
FimDigitos(s, i) ==
    IF i <= Len(s) /\ Ch(s, i) \in Digitos THEN FimDigitos(s, i + 1) ELSE i

\* int() of a digit string; "" counts 0
RECURSIVE DigitosParaInt(_)
DigitosParaInt(d) ==
    IF d = "" THEN 0
    ELSE 10 * DigitosParaInt(SubSeq(d, 1, Len(d) - 1)) + DigitVal(Ch(d, Len(d)))

\* float() of a string: <<"ok", v>>, <<"nan">> or <<"ValueError">>.
\* Accepted: optional sign, digits with one optional "." (at least one digit),
\* and the word nan in any case.  The fraction keeps CasasDecimais digits.
ParseFloat(txt) ==
    LET neg  == Len(txt) >= 1 /\ Ch(txt, 1) = "-"
        sgn  == Len(txt) >= 1 /\ Ch(txt, 1) \in {"-", "+"}
        body == IF sgn THEN SubSeq(txt, 2, Len(txt)) ELSE txt
        j    == FimDigitos(body, 1)
        dot  == j <= Len(body) /\ Ch(body, j) = "."
        k    == IF dot THEN j + 1 ELSE j
        m    == FimDigitos(body, k)
        ip   == SubSeq(body, 1, j - 1)
        fp   == SubSeq(body, k, m - 1)
        fpc  == IF Len(fp) > CasasDecimais THEN SubSeq(fp, 1, CasasDecimais) ELSE fp
        mag  == DigitosParaInt(ip) * Unidade
                  + DigitosParaInt(fpc) * Pow10(CasasDecimais - Len(fpc))
    IN  IF Lower(body) = "nan" THEN <<"nan">>
        ELSE IF m = Len(body) + 1 /\ Len(ip) + Len(fp) >= 1
             THEN <<"ok", IF neg THEN 0 - mag ELSE mag>>
             ELSE <<"ValueError">>

(* ------------------- _extrair_percentuais (82-93) ---------------------- *)
\* re.findall(r"(\d+[\.,]?\d*)\s*%?", texto): the captured tokens, left to right
RECURSIVE FindAllNumeros(_, _)
FindAllNumeros(texto, i) ==
    IF i > Len(texto) THEN <<>>
    ELSE IF Ch(texto, i) \in Digitos
         THEN LET j == FimDigitos(texto, i)
                  k == IF j <= Len(texto) /\ Ch(texto, j) \in {".", ","} THEN j + 1 ELSE j
                  m == FimDigitos(texto, k)
              IN  <<SubSeq(texto, i, m - 1)>> \o FindAllNumeros(texto, m)
         ELSE FindAllNumeros(texto, i + 1)

RECURSIVE ConverteValores(_)
ConverteValores(encontrados) ==
    IF encontrados = <<>> THEN <<>>
    ELSE LET r == ParseFloat(Replace(Head(encontrados), ",", "."))
         IN  (IF r[1] = "ok" THEN <<r[2]>> ELSE <<>>) \o ConverteValores(Tail(encontrados))

_extrair_percentuais(texto) == ConverteValores(FindAllNumeros(texto, 1))

(* --------------------- _detectar_header (117-127) ---------------------- *)
BANDEIRAS_PADRAO == <<"VISA", "MASTERCARD", "ELO", "AMEX", "HIPERCARD">>

Encontrados(line) ==
    SelectSeq(BANDEIRAS_PADRAO, LAMBDA b : Contains(Lower(line), Lower(b)))

RECURSIVE _detectar_header_ultima(_)
_detectar_header_ultima(linhas) ==
    IF linhas = <<>> THEN <<>>
    ELSE IF Len(Encontrados(linhas[Len(linhas)])) >= 3
         THEN Encontrados(linhas[Len(linhas)])
         ELSE _detectar_header_ultima(SubSeq(linhas, 1, Len(linhas) - 1))

RECURSIVE _detectar_header(_)
_detectar_header(linhas) ==
    IF linhas = <<>> THEN <<>>
    ELSE IF Len(Encontrados(Head(linhas))) >= 3
         THEN Encontrados(Head(linhas))
         ELSE _detectar_header(Tail(linhas))

(* ------------------------- float formatting ---------------------------- *)
\* A float is <<"num", v>> (v units of 10^-CasasDecimais) or <<"nan">>.
Num(v) == <<"num", v>>

NaN == <<"nan">>

Abs(v) == IF v < 0 THEN 0 - v ELSE v

\* n written with exactly w digits, zero-padded on the left
RECURSIVE ZeroPad(_, _)
ZeroPad(n, w) == IF w = 0 THEN "" ELSE ZeroPad(n \div 10, w - 1) \o ToString(n % 10)

\* a digit string without its trailing zeros
RECURSIVE SemZerosFinais(_)
SemZerosFinais(d) ==
    IF d # "" /\ Ch(d, Len(d)) = "0" THEN SemZerosFinais(SubSeq(d, 1, Len(d) - 1)) ELSE d

\* str(x) of a float: shortest repr, at least one fraction digit
StrFloat(x) ==
    IF x = NaN THEN "nan"
    ELSE LET v    == x[2]
             frac == SemZerosFinais(ZeroPad(Abs(v) % Unidade, CasasDecimais))
         IN  (IF v < 0 THEN "-" ELSE "") \o ToString(Abs(v) \div Unidade) \o "."
                \o (IF frac = "" THEN "0" ELSE frac)

\* v (units of 10^-CasasDecimais) to the nearest multiple of 10^-4, in units of
\* 10^-4; a value exactly half-way is not among the modelled inputs
Arredonda4(v) ==
    LET passo == Pow10(CasasDecimais - 4)
    IN  IF passo = 1 THEN v ELSE (2 * v + passo) \div (2 * passo)

\* round(x, 4)
Round4(x) == IF x = NaN THEN NaN ELSE Num(Arredonda4(x[2]) * Pow10(CasasDecimais - 4))

\* f"{x:.4f}"
Format4(x) ==
    IF x = NaN THEN "nan"
    ELSE LET q == Arredonda4(x[2])
         IN  (IF q < 0 THEN "-" ELSE "") \o ToString(Abs(q) \div 10000) \o "."
                \o ZeroPad(Abs(q) % 10000, 4)

(* ---------------- string order (Python's < on str) --------------------- *)
Ascii == " +-0123456789ABCDEFGHIJKLMNOPQRSTUVWXYZ_abcdefghijklmnopqrstuvwxyz"

Ord(c) == CHOOSE i \in 1..Len(Ascii) : Ch(Ascii, i) = c

RECURSIVE StrLess(_, _)
StrLess(a, b) ==
    IF b = "" THEN FALSE
    ELSE IF a = "" THEN TRUE
    ELSE IF Ch(a, 1) = Ch(b, 1) THEN StrLess(SubSeq(a, 2, Len(a)), SubSeq(b, 2, Len(b)))
    ELSE Ord(Ch(a, 1)) < Ord(Ch(b, 1))

(* ------------------ normalizar_tabela (134-193) ------------------------ *)
\* A table cell: CelNone (None/NaN, or a column the table does not have),
\* CelStr(s) (text typed by the operator) or CelFloat(v).
CelNone == <<"none">>

CelStr(s) == <<"str", s>>

CelFloat(v) == <<"float", v>>

_normalizar_modalidade(texto0) ==
    LET texto == Lower(texto0)
    IN  IF Contains(texto, "deb") THEN "DEBITO"
        ELSE IF Contains(texto, "avista") \/ Contains(texto, "a vista") THEN "CREDITO_AVISTA"
        ELSE IF Contains(texto, "2") /\ Contains(texto, "6") THEN "CREDITO_2A6X"
        ELSE IF Contains(texto, "7") /\ Contains(texto, "12") THEN "CREDITO_7A12X"
        ELSE IF Contains(texto, "13") \/ Contains(texto, "21") THEN "CREDITO_13A21X"
        ELSE IF Contains(texto, "credito") \/ Contains(texto, "crédito") THEN "CREDITO_AVISTA"
        ELSE ""

_faixa_parcelas(canal) ==
    CASE canal = "DEBITO" -> <<1, 1>>
      [] canal = "CREDITO_AVISTA" -> <<1, 1>>
      [] canal = "CREDITO_2A6X" -> <<2, 6>>
      [] canal = "CREDITO_7A12X" -> <<7, 12>>
      [] canal = "CREDITO_13A21X" -> <<13, 21>>
      [] OTHER -> <<1, 1>>

\* row.get(bandeira): the cell, or None when the table has no such column
RowGet(row, bandeira) ==
    IF bandeira \in DOMAIN row.taxas THEN row.taxas[bandeira] ELSE CelNone

\* lines 145-150: <<taxa_num>> when the cell gives a record, <<>> when it is skipped
TaxaNum(taxa) ==
    IF taxa = CelNone \/ taxa = CelStr("") THEN <<>>
    ELSE LET r == ParseFloat(Replace(IF taxa[1] = "str" THEN taxa[2]
                                     ELSE StrFloat(Num(taxa[2])), ",", "."))
         IN  IF r[1] = "ValueError" THEN <<>>
             ELSE IF r[1] = "nan" THEN <<NaN>> ELSE <<Num(r[2])>>

\* lines 143-161 for one row: the records of the brands from position i on
RECURSIVE RegistrosDaLinha(_, _, _, _)
RegistrosDaLinha(row, canal, taxa_ant, i) ==
    IF i > Len(BANDEIRAS_PADRAO) THEN <<>>
    ELSE LET bandeira == BANDEIRAS_PADRAO[i]
             t        == TaxaNum(RowGet(row, bandeira))
             faixa    == _faixa_parcelas(canal)
         IN  (IF t = <<>> THEN <<>>
              ELSE << [ canal |-> canal,
                        bandeira |-> bandeira,
                        parcela_de |-> faixa[1],
                        parcela_ate |-> faixa[2],
                        mdr |-> Round4(t[1]),
                        prazo_recebimento |-> Upper(Replace(row.prazo_recebimento, " ", "")),
                        taxa_antecipacao |-> taxa_ant ] >>)
             \o RegistrosDaLinha(row, canal, taxa_ant, i + 1)

RECURSIVE normalizar_tabela(_, _)
normalizar_tabela(df, taxa_ant) ==
    IF df = <<>> THEN <<>>
    ELSE LET canal == _normalizar_modalidade(Head(df).modalidade)
         IN  (IF canal = "" THEN <<>> ELSE RegistrosDaLinha(Head(df), canal, taxa_ant, 1))
             \o normalizar_tabela(Tail(df), taxa_ant)

(* -------------------- gerar_hash_plano (196-215) ----------------------- *)
\* the sort key of line 199, compared field by field
ChaveMenor(a, b) ==
    \/ StrLess(a.canal, b.canal)
    \/ /\ a.canal = b.canal
       /\ \/ StrLess(a.bandeira, b.bandeira)
          \/ /\ a.bandeira = b.bandeira
             /\ \/ a.parcela_de < b.parcela_de
                \/ /\ a.parcela_de = b.parcela_de
                   /\ a.parcela_ate < b.parcela_ate

\* r inserted into the sorted sequence s after every record whose key is not larger
RECURSIVE InsereOrdenado(_, _)
InsereOrdenado(s, r) ==
    IF s = <<>> THEN <<r>>
    ELSE IF ChaveMenor(r, Head(s)) THEN <<r>> \o s
    ELSE <<Head(s)>> \o InsereOrdenado(Tail(s), r)

\* df.sort_values(by=[canal, bandeira, parcela_de, parcela_ate]): records with
\* equal keys keep the order they have in df
RECURSIVE SortValues(_)
SortValues(df) ==
    IF df = <<>> THEN <<>>
    ELSE InsereOrdenado(SortValues(SubSeq(df, 1, Len(df) - 1)), df[Len(df)])

\* lines 202-212
LinhaHash(row, taxa_ant) ==
    row.canal \o "|" \o row.bandeira \o "|" \o ToString(row.parcela_de) \o "|"
        \o ToString(row.parcela_ate) \o "|" \o Format4(row.mdr) \o "|"
        \o row.prazo_recebimento \o "|"
        \o (IF taxa_ant = None THEN "" ELSE Format4(Num(taxa_ant[1])))

RECURSIVE JoinLinhas(_, _)
JoinLinhas(df_ord, taxa_ant) ==
    IF Len(df_ord) = 1 THEN LinhaHash(df_ord[1], taxa_ant)
    ELSE LinhaHash(df_ord[1], taxa_ant) \o "\n" \o JoinLinhas(Tail(df_ord), taxa_ant)

\* hashlib.sha256(payload).hexdigest(): a digest is modelled by the payload it
\* digests (no two payloads share a digest), and is never the empty string
Sha256Hex(payload) == "sha256(" \o payload \o ")"

gerar_hash_plano(df, taxa_ant) ==
    IF df = <<>> THEN ""
    ELSE Sha256Hex(JoinLinhas(SortValues(df), taxa_ant))

(* ------------- the catalog: load, query, commit (218-280) -------------- *)
\* The workbook is modelled by the rows of its BASE_PLANOS sheet, in order; a
\* missing workbook is created with the header row only (219-220, 229-247).
\* Every value the modelled sessions write is read back as written: plan names
\* are plain words (not text such as "NA" that read_excel turns into a missing
\* value) and every row carries a non-empty hash_plano.
carregar_base_excel(arquivo) == arquivo

Range(f) == {f[i] : i \in DOMAIN f}

\* the distinct plan names of base_df in ascending order (groupby sorts its keys)
RECURSIVE OrdenaNomes(_)
OrdenaNomes(S) ==
    IF S = {} THEN <<>>
    ELSE LET m == CHOOSE x \in S : \A y \in S : y = x \/ StrLess(x, y)
         IN  <<m>> \o OrdenaNomes(S \ {m})

\* groupby("plan_name")["hash_plano"] taken from the last row of the group
PrimeiroHash_ultimo(base_df, nome) ==
    LET idx == {i \in 1..Len(base_df) : base_df[i].plan_name = nome}
    IN  base_df[CHOOSE i \in idx : \A j \in idx : j <= i].hash_plano

\* groupby("plan_name")["hash_plano"].first() for one plan name
PrimeiroHash(base_df, nome) ==
    LET idx == {i \in 1..Len(base_df) : base_df[i].plan_name = nome}
    IN  base_df[CHOOSE i \in idx : \A j \in idx : i <= j].hash_plano

comparar_com_base(hash_plano, base_df) ==
    IF base_df = <<>> THEN <<>>
    ELSE SelectSeq(OrdenaNomes({base_df[i].plan_name : i \in 1..Len(base_df)}),
                   LAMBDA nome : PrimeiroHash(base_df, nome) = hash_plano)

\* lines 263-278: the rows of df_novo[colunas]
NovasLinhas(df_normalizado, plan_name, hash_plano, now) ==
    [k \in 1..Len(df_normalizado) |->
        [ plan_name |-> plan_name,
          canal |-> df_normalizado[k].canal,
          bandeira |-> df_normalizado[k].bandeira,
          parcela_de |-> df_normalizado[k].parcela_de,
          parcela_ate |-> df_normalizado[k].parcela_ate,
          mdr |-> df_normalizado[k].mdr,
          prazo_recebimento |-> df_normalizado[k].prazo_recebimento,
          taxa_antecipacao |-> df_normalizado[k].taxa_antecipacao,
          hash_plano |-> hash_plano,
          data_criacao |-> now ] ]

\* line 279 with the new rows put first
ConcatFinal_novoPrimeiro(df_base, df_novo) == df_novo \o df_base

\* line 279 without the rows read from the workbook
ConcatFinal_soNovo(df_base, df_novo) == df_novo

\* line 279: pd.concat([df_base, df_novo[colunas]], ignore_index=True)
ConcatFinal(df_base, df_novo) == df_base \o df_novo

\* line 343 taken whatever the matcher returned
OfereceSalvar_sempre(planos_existentes) == TRUE

\* lines 338/343: the save form is shown only when nothing matched
OfereceSalvar(planos_existentes) == planos_existentes = <<>>

MsgMatch == "Este plano ja existe na base."

MsgNovo == "Plano nao encontrado na base. Salve como novo."

MsgErroNome == "Informe um nome para o plano."

MsgErroVazia == "Tabela normalizada vazia. Nao ha dados para salvar."

MsgSalvo == "Plano salvo com sucesso."

\* lines 347-351 without the plan-name test
BotaoSalvar_semNome(novo_nome, tabela_normalizada) ==
    IF tabela_normalizada = <<>> THEN MsgErroVazia ELSE "salvar"

\* lines 347-351: the error shown, or "salvar" when salvar_plano_na_base is called
BotaoSalvar(novo_nome, tabela_normalizada) ==
    IF novo_nome = "" THEN MsgErroNome
    ELSE IF tabela_normalizada = <<>> THEN MsgErroVazia
    ELSE "salvar"

(* ------------- ler_imagem_e_extrair_tabela, lines 44-56 ---------------- *)
VARIABLES lines, pos, taxa_antecipacao, linhas_tabela, bandeiras, fase,
          tabela_editada, edicoes, registros, fase_norm,
          df_a, df_b, hash_a, hash_b,
          catalog, clock, pc, locais, mensagem, commits, sobreposicao

\* ler_imagem_e_extrair_tabela: its line list, loop position and results
ocrVars == <<lines, pos, taxa_antecipacao, linhas_tabela, bandeiras, fase>>

\* the table in the editor, the number of edits made, and the normalizer's output
normVars == <<tabela_editada, edicoes, registros, fase_norm>>

\* a record sequence, a reordering of it, and the fingerprints of both
hashVars == <<df_a, df_b, hash_a, hash_b>>

\* the workbook, the UTC clock, per session the position in the script and the
\* script's local variables, and the message the latest script run showed;
\* `commits` lists the finished salvar_plano_na_base calls, and sobreposicao[s]
\* records that the call session s is in overlapped another session's call (one
\* read the workbook while the other was between its read and its write)
catVars == <<catalog, clock, pc, locais, mensagem, commits, sobreposicao>>

vars == <<ocrVars, normVars, hashVars, catVars>>

OcrParado ==
    /\ lines = <<>> /\ pos = 1 /\ taxa_antecipacao = None
    /\ linhas_tabela = <<>> /\ bandeiras = <<>> /\ fase = "off"

NormParado ==
    /\ tabela_editada = <<>> /\ edicoes = 0 /\ registros = <<>> /\ fase_norm = "off"

HashParado ==
    /\ df_a = <<>> /\ df_b = <<>> /\ hash_a = "" /\ hash_b = "" 

Sessions == {1, 2}

SemLocais ==
    [ tabela_editada |-> <<>>, taxa_antecipacao |-> None, tabela_normalizada |-> <<>>,
      hash_plano |-> "", novo_nome |-> "", df_base |-> <<>>, now |-> 0 ]

CatParado ==
    /\ catalog = <<>> /\ clock = 0
    /\ pc = [s \in Sessions |-> "idle"]
    /\ locais = [s \in Sessions |-> SemLocais]
    /\ mensagem = ""
    /\ commits = <<>> /\ sobreposicao = [s \in Sessions |-> FALSE]

LineVocab ==
    { "Taxa de antecipacao 3,5% a.m.",
      "ANTECIPACAO: 4.0 % em 12x",
      "Antecipacao sob consulta",
      "Bandeira ELO Mastercard visa",
      "VISA MASTERCARD AMEX HIPERCARD",
      "Debito 1,50% 2,10% D+1",
      "modelo Visa MasterCard",
      "Antecipacao Visa Elo Amex 2%" }

RECURSIVE SeqsAte(_, _)
SeqsAte(S, n) ==
    IF n = 0 THEN {<<>>}
    ELSE LET menores == SeqsAte(S, n - 1)
         IN  menores \cup {Append(q, x) : q \in {p \in menores : Len(p) = n - 1}, x \in S}

EhAntecip(line) == Contains(Lower(line), "antecip")

\* lines 49-51, first-match-wins variant
NovaTaxa_primeira(taxa, line) ==
    LET taxa_match == _extrair_percentuais(line)
    IN  IF taxa_match # <<>> /\ taxa = None THEN Some(taxa_match[1]) ELSE taxa

\* lines 49-51: the value of taxa_antecipacao after an "antecip" line
NovaTaxa(taxa, line) ==
    LET taxa_match == _extrair_percentuais(line)
    IN  IF taxa_match # <<>> THEN Some(taxa_match[1]) ELSE taxa

OcrInit ==
    /\ lines \in SeqsAte(LineVocab, MaxLines)
    /\ pos = 1
    /\ taxa_antecipacao = None
    /\ linhas_tabela = <<>>
    /\ bandeiras = <<>>
    /\ fase = "loop"
    /\ NormParado /\ HashParado /\ CatParado

\* one iteration of `for line in lines` (46-53)
ClassificaLinha ==
    /\ fase = "loop"
    /\ pos <= Len(lines)
    /\ IF EhAntecip(lines[pos])
       THEN /\ taxa_antecipacao' = NovaTaxa(taxa_antecipacao, lines[pos])
            /\ UNCHANGED linhas_tabela
       ELSE /\ linhas_tabela' = Append(linhas_tabela, lines[pos])
            /\ UNCHANGED taxa_antecipacao
    /\ pos' = pos + 1
    /\ UNCHANGED <<lines, bandeiras, fase, normVars, hashVars, catVars>>

\* lines 55-56, after the loop
DetectaHeader ==
    /\ fase = "loop"
    /\ pos > Len(lines)
    /\ LET header_detectada == _detectar_header(linhas_tabela)
       IN  bandeiras' = IF header_detectada # <<>> THEN header_detectada ELSE BANDEIRAS_PADRAO
    /\ fase' = "done"
    /\ UNCHANGED <<lines, pos, taxa_antecipacao, linhas_tabela, normVars, hashVars, catVars>>

OcrNext == ClassificaLinha \/ DetectaHeader

SpecOcr == OcrInit /\ [][OcrNext]_vars

(* ---------- data_editor, then normalizar_tabela (326-329) -------------- *)
\* a table row as lines 62-70 build it: the line's text, one cell per brand
\* column, and the settlement term
Linha(modalidade, visa, master, prazo) ==
    [ modalidade |-> modalidade,
      taxas |-> [b \in Range(BANDEIRAS_PADRAO) |->
                    IF b = "VISA" THEN visa ELSE IF b = "MASTERCARD" THEN master ELSE CelNone],
      prazo_recebimento |-> prazo ]

TabelasExtraidas ==
    { << Linha("Debito 1,50% 2,10% D+1", CelFloat(150000), CelFloat(210000), "D+1") >>,
      << Linha("Credito a vista 2,99", CelFloat(299000), CelNone, ""),
         Linha("Parcelado 7 a 12x", CelFloat(700000), CelFloat(1200000), "") >> }

\* what the operator may type into a rate cell
CellVocab ==
    { CelNone, CelStr(""), CelStr("abc"), CelStr("2,10"), CelStr("-0,5"), CelStr("nan"),
      CelFloat(210004), CelFloat(0 - 150000) }

ModalidadeVocab == {"Outros", "DEBITO", "Credito 2 a 6x"}

NormInit ==
    /\ tabela_editada \in TabelasExtraidas
    /\ taxa_antecipacao \in {None, Some(350000)}
    /\ edicoes = 0
    /\ registros = <<>>
    /\ fase_norm = "edit"
    /\ lines = <<>> /\ pos = 1 /\ linhas_tabela = <<>> /\ bandeiras = <<>> /\ fase = "off"
    /\ HashParado /\ CatParado

\* the operator overwrites one rate cell in the editor (326)
EditaCelula ==
    /\ fase_norm = "edit"
    /\ edicoes < MaxEdits
    /\ \E i \in 1..Len(tabela_editada), b \in Range(BANDEIRAS_PADRAO), c \in CellVocab :
          tabela_editada' = [tabela_editada EXCEPT ![i].taxas[b] = c]
    /\ edicoes' = edicoes + 1
    /\ UNCHANGED <<registros, fase_norm, ocrVars, hashVars, catVars>>

\* the operator overwrites one channel label in the editor (326)
EditaModalidade ==
    /\ fase_norm = "edit"
    /\ edicoes < MaxEdits
    /\ \E i \in 1..Len(tabela_editada), m \in ModalidadeVocab :
          tabela_editada' = [tabela_editada EXCEPT ![i].modalidade = m]
    /\ edicoes' = edicoes + 1
    /\ UNCHANGED <<registros, fase_norm, ocrVars, hashVars, catVars>>

\* line 329
Normaliza ==
    /\ fase_norm = "edit"
    /\ registros' = normalizar_tabela(tabela_editada, taxa_antecipacao)
    /\ fase_norm' = "done"
    /\ UNCHANGED <<tabela_editada, edicoes, ocrVars, hashVars, catVars>>

NormNext == EditaCelula \/ EditaModalidade \/ Normaliza

SpecNorm == NormInit /\ [][NormNext]_vars

(* ------------- gerar_hash_plano on a reordered sequence ---------------- *)
Registro(canal, bandeira, mdr, prazo) ==
    [ canal |-> canal, bandeira |-> bandeira,
      parcela_de |-> _faixa_parcelas(canal)[1], parcela_ate |-> _faixa_parcelas(canal)[2],
      mdr |-> Num(mdr), prazo_recebimento |-> prazo, taxa_antecipacao |-> None ]

\* records normalizar_tabela emits; the first two come from two table rows that
\* both map to DEBITO
RegVocab ==
    { Registro("DEBITO", "VISA", 150000, "D+1"),
      Registro("DEBITO", "VISA", 210000, "D+1"),
      Registro("DEBITO", "MASTERCARD", 210000, "D+1"),
      Registro("CREDITO_2A6X", "VISA", 320000, "D+30") }

\* the reorderings of a sequence
Permutacoes(q) ==
    { [i \in 1..Len(q) |-> q[f[i]]] :
        f \in {g \in [1..Len(q) -> 1..Len(q)] : \A i, j \in 1..Len(q) : g[i] = g[j] => i = j} }

HashInit ==
    /\ df_a \in SeqsAte(RegVocab, MaxRegs) \ {<<>>}
    /\ df_b \in Permutacoes(df_a)
    /\ taxa_antecipacao \in {None, Some(350000)}
    /\ hash_a = "" /\ hash_b = ""
    /\ lines = <<>> /\ pos = 1 /\ linhas_tabela = <<>> /\ bandeiras = <<>> /\ fase = "off"
    /\ NormParado /\ CatParado

\* line 332, for the sequence and for its reordering
CalculaHash ==
    /\ hash_a = ""
    /\ hash_a' = gerar_hash_plano(df_a, taxa_antecipacao)
    /\ hash_b' = gerar_hash_plano(df_b, taxa_antecipacao)
    /\ UNCHANGED <<df_a, df_b, ocrVars, normVars, catVars>>

HashNext == CalculaHash

SpecHash == HashInit /\ [][HashNext]_vars

(* ------------- the Streamlit script run, lines 309-356 ----------------- *)
LinhaDebito == Linha("Debito", CelFloat(150000), CelNone, "D+1")

LinhaDebitoPre == Linha("Debito pre-pago", CelFloat(210000), CelNone, "D+1")

LinhaOutros == Linha("Outros", CelFloat(100000), CelNone, "")

\* what a session uploads and edits: the table in the editor and the detected
\* surcharge rate
Extracoes ==
    { [tabela |-> <<LinhaDebito>>, taxa |-> None],
      [tabela |-> <<LinhaDebito, LinhaDebitoPre>>, taxa |-> None],
      [tabela |-> <<LinhaDebitoPre, LinhaDebito>>, taxa |-> None],
      [tabela |-> <<LinhaOutros>>, taxa |-> None] }

\* what the operator types as plan name (345)
Nomes == {"", "A", "B"}

EmCurso == {s \in Sessions : pc[s] # "idle"}

CatInit ==
    /\ catalog = <<>>
    /\ clock = 0
    /\ pc = [s \in Sessions |-> "idle"]
    /\ locais = [s \in Sessions |-> SemLocais]
    /\ mensagem = ""
    /\ commits = <<>>
    /\ sobreposicao = [s \in Sessions |-> FALSE]
    /\ OcrParado /\ NormParado /\ HashParado

\* lines 329 and 332 for each upload: the normalized table and its fingerprint
Preparadas ==
    { [ tabela |-> e.tabela, taxa |-> e.taxa,
        tabela_normalizada |-> normalizar_tabela(e.tabela, e.taxa),
        hash_plano |-> gerar_hash_plano(normalizar_tabela(e.tabela, e.taxa), e.taxa) ] :
      e \in Extracoes }

\* One run of the script by session s, up to the call of salvar_plano_na_base:
\* normalize and fingerprint the edited table (329, 332; e carries both), load
\* the workbook and query it (335-336), then either report the match (338-342)
\* or show the save form and handle its button (343-353).
ScriptRun(s, e, nome, clicou) ==
    /\ pc[s] = "idle"
    /\ LET base_df           == carregar_base_excel(catalog)
           planos_existentes == comparar_com_base(e.hash_plano, base_df)
           botao             == BotaoSalvar(nome, e.tabela_normalizada)
       IN  IF ~OfereceSalvar(planos_existentes)
           THEN /\ mensagem' = MsgMatch
                /\ UNCHANGED <<pc, locais>>
           ELSE IF ~clicou
           THEN /\ mensagem' = MsgNovo
                /\ UNCHANGED <<pc, locais>>
           ELSE IF botao # "salvar"
           THEN /\ mensagem' = botao
                /\ UNCHANGED <<pc, locais>>
           ELSE /\ Len(commits) + Cardinality(EmCurso) < MaxCommits
                /\ pc' = [pc EXCEPT ![s] = "salvar"]
                /\ locais' = [locais EXCEPT ![s] =
                     [ tabela_editada |-> e.tabela, taxa_antecipacao |-> e.taxa,
                       tabela_normalizada |-> e.tabela_normalizada,
                       hash_plano |-> e.hash_plano, novo_nome |-> nome,
                       df_base |-> <<>>, now |-> 0 ]]
                /\ mensagem' = MsgNovo
    /\ UNCHANGED <<catalog, clock, commits, sobreposicao, ocrVars, normVars, hashVars>>

\* salvar_plano_na_base, lines 261-262: read the whole workbook, take the time
\* (datetime.utcnow() gives every call a later time than the call before)
SalvarCarrega(s) ==
    /\ pc[s] = "salvar"
    /\ locais' = [locais EXCEPT ![s].df_base = carregar_base_excel(catalog),
                                ![s].now = clock]
    /\ clock' = clock + 1
    /\ LET outras == {u \in Sessions \ {s} : pc[u] = "escreve"}
       IN  sobreposicao' = [u \in Sessions |->
                              IF u = s THEN outras # {}
                              ELSE sobreposicao[u] \/ u \in outras]
    /\ pc' = [pc EXCEPT ![s] = "escreve"]
    /\ UNCHANGED <<catalog, mensagem, commits, ocrVars, normVars, hashVars>>

\* salvar_plano_na_base, lines 263-280, and line 354: write the whole workbook
\* (a failing write, lines 355-356, leaves the workbook as it was and is not
\* modelled)
SalvarEscreve(s) ==
    /\ pc[s] = "escreve"
    /\ LET df_novo == NovasLinhas(locais[s].tabela_normalizada, locais[s].novo_nome,
                                  locais[s].hash_plano, locais[s].now)
       IN  /\ catalog' = ConcatFinal(locais[s].df_base, df_novo)
           /\ commits' = Append(commits,
                 [ plan_name |-> locais[s].novo_nome,
                   tabela_editada |-> locais[s].tabela_editada,
                   taxa_antecipacao |-> locais[s].taxa_antecipacao,
                   hash_plano |-> locais[s].hash_plano,
                   linhas |-> df_novo,
                   sobreposto |-> sobreposicao[s] ])
    /\ mensagem' = MsgSalvo
    /\ pc' = [pc EXCEPT ![s] = "idle"]
    /\ locais' = [locais EXCEPT ![s] = SemLocais]
    /\ sobreposicao' = [sobreposicao EXCEPT ![s] = FALSE]
    /\ UNCHANGED <<clock, ocrVars, normVars, hashVars>>

\* sessions run their scripts concurrently, interleaved at the workbook I/O
Next ==
    \E s \in Sessions :
        \/ \E e \in Preparadas, nome \in Nomes, clicou \in BOOLEAN : ScriptRun(s, e, nome, clicou)
        \/ SalvarCarrega(s)
        \/ SalvarEscreve(s)

Spec == CatInit /\ [][Next]_vars

\* a script run starts only when no other session is inside its own
ScriptRunSozinho(s, e, nome, clicou) ==
    /\ \A u \in Sessions : pc[u] = "idle"
    /\ ScriptRun(s, e, nome, clicou)

NextSingle ==
    \E s \in Sessions :
        \/ \E e \in Preparadas, nome \in Nomes, clicou \in BOOLEAN :
              ScriptRunSozinho(s, e, nome, clicou)
        \/ SalvarCarrega(s)
        \/ SalvarEscreve(s)

SpecSingle == CatInit /\ [][NextSingle]_vars

(* ------------------------- claims C7 and C8 ---------------------------- *)
MaxDe(S) == CHOOSE x \in S : \A y \in S : y <= x

MinDe(S) == CHOOSE x \in S : \A y \in S : x <= y

\* indexes, among the first n lines, of the surcharge lines that yield a number
LinhasComTaxa(n) ==
    {i \in 1..n : EhAntecip(lines[i]) /\ _extrair_percentuais(lines[i]) # <<>>}

\* C7: after any number of processed lines, taxa_antecipacao is the first numeric
\* token of the last processed "antecip" line that yields a numeric token (None
\* if there is no such line), and no "antecip" line is among the table-line
\* candidates.
C7_UltimaTaxaVence ==
    /\ taxa_antecipacao =
          IF LinhasComTaxa(pos - 1) = {} THEN None
          ELSE Some(_extrair_percentuais(lines[MaxDe(LinhasComTaxa(pos - 1))])[1])
    /\ \A i \in 1..Len(linhas_tabela) : ~EhAntecip(linhas_tabela[i])

\* lines with 3.5, then 4.0, then a surcharge line without a number leave 4.0
C7_Witness ==
    /\ fase = "done"
    /\ lines = << "Taxa de antecipacao 3,5% a.m.",
                  "ANTECIPACAO: 4.0 % em 12x",
                  "Antecipacao sob consulta" >>
    /\ taxa_antecipacao = Some(4 * Unidade)

Candidatas == SelectSeq(lines, LAMBDA l : ~EhAntecip(l))

MarcasNaLinha(line) ==
    {i \in 1..Len(BANDEIRAS_PADRAO) : Contains(Lower(line), Lower(BANDEIRAS_PADRAO[i]))}

LinhasHeader == {i \in 1..Len(Candidatas) : Cardinality(MarcasNaLinha(Candidatas[i])) >= 3}

\* C8: once the header has been detected, bandeiras is the default list when no
\* candidate line holds 3 or more known brands, and otherwise the known brands
\* of the first such candidate line, in the order of BANDEIRAS_PADRAO.
C8_HeaderDetection ==
    fase = "done" =>
        IF LinhasHeader = {} THEN bandeiras = BANDEIRAS_PADRAO
        ELSE LET marcas == MarcasNaLinha(Candidatas[MinDe(LinhasHeader)])
             IN  /\ Len(bandeiras) = Cardinality(marcas)
                 /\ \A i \in 1..Len(bandeiras) :
                       /\ \E k \in marcas : bandeiras[i] = BANDEIRAS_PADRAO[k]
                       /\ \A j \in 1..Len(bandeiras) :
                             i < j => \E a, b \in marcas :
                                         /\ a < b
                                         /\ bandeiras[i] = BANDEIRAS_PADRAO[a]
                                         /\ bandeiras[j] = BANDEIRAS_PADRAO[b]

\* a header written "ELO Mastercard visa" gives VISA, MASTERCARD, ELO, and a
\* later line with other brands does not replace it
C8_Witness ==
    /\ fase = "done"
    /\ lines = << "Bandeira ELO Mastercard visa", "VISA MASTERCARD AMEX HIPERCARD" >>
    /\ bandeiras = <<"VISA", "MASTERCARD", "ELO">>

(* ------------------------- claims C1 and C6 ---------------------------- *)
\* C1: once both fingerprints are computed, the fingerprint of a non-empty
\* record sequence equals the fingerprint of any reordering of it (same
\* surcharge rate), records that share the sort key included.
C1_FingerprintDeterminism == hash_a # "" => hash_a = hash_b

\* C6: every record the normalizer emitted, for an extracted table the operator
\* may have edited, has a rate that is a number (not NaN) and is not negative.
C6_RateInvariant ==
    \A k \in 1..Len(registros) :
        registros[k].mdr[1] = "num" /\ registros[k].mdr[2] >= 0

(* ------------------ claims C2, C3, C4, C5, C9, C10 --------------------- *)
\* C2: for every finished commit (plan name P, edited table T), in every later
\* state, a session that extracts T in any row order, fingerprints it and
\* queries the workbook gets a match list that contains P.
C2_MatchAfterCommit ==
    \A i \in 1..Len(commits) :
        \A t \in Permutacoes(commits[i].tabela_editada) :
            LET taxa == commits[i].taxa_antecipacao
                h    == gerar_hash_plano(normalizar_tabela(t, taxa), taxa)
            IN  commits[i].plan_name \in Range(comparar_com_base(h, carregar_base_excel(catalog)))

\* C3: a script run whose save button is pressed with an empty plan name or an
\* empty normalized table leaves the workbook as it was and does not go on to
\* salvar_plano_na_base.
C3_CommitInputError ==
    [][ \A s \in Sessions, e \in Preparadas, nome \in Nomes :
          ((nome = "" \/ e.tabela_normalizada = <<>>) /\ ScriptRunSozinho(s, e, nome, TRUE))
             => (catalog' = catalog /\ pc'[s] = "idle" /\ commits' = commits) ]_vars

\* a save without a plan name was refused while the workbook already held rows
C3_Witness ==
    /\ mensagem = MsgErroNome
    /\ catalog # <<>>
    /\ \A s \in Sessions : pc[s] = "idle"

LinhasPerdidas(i) ==
    \E k \in 1..Len(commits[i].linhas) : commits[i].linhas[k] \notin Range(catalog)

\* C4: rows of a finished commit are missing from the workbook only if that
\* commit's salvar_plano_na_base call overlapped another one; the rows of a
\* commit that overlapped none are never lost.
C4_PerdaSoComSobreposicao ==
    \A i \in 1..Len(commits) : LinhasPerdidas(i) => commits[i].sobreposto

\* both sessions read before either wrote: both commits finished, and the
\* workbook holds the rows of the last writer only
C4_Witness ==
    /\ Len(commits) = 2
    /\ \A s \in Sessions : pc[s] = "idle"
    /\ commits[1].sobreposto /\ commits[2].sobreposto
    /\ catalog = commits[2].linhas
    /\ \A k \in 1..Len(commits[1].linhas) : commits[1].linhas[k] \notin Range(catalog)

\* the fingerprints a session can compute, and the empty fingerprint
Consultas == {e.hash_plano : e \in Preparadas} \cup {""}

\* the plan name of row i does not occur in an earlier row
PrimeiraDoNome(i) == \A j \in 1..(i - 1) : catalog[j].plan_name # catalog[i].plan_name

AnexaLinhas(s) ==
    LET df == locais[s].tabela_normalizada
        n  == Len(catalog)
    IN  /\ pc[s] = "escreve"
        /\ Len(df) >= 1
        /\ Len(catalog') = n + Len(df)
        /\ SubSeq(catalog', 1, n) = catalog
        /\ \A k \in 1..Len(df) :
              /\ catalog'[n + k].plan_name = locais[s].novo_nome
              /\ catalog'[n + k].hash_plano = locais[s].hash_plano
              /\ catalog'[n + k].data_criacao = catalog'[n + 1].data_criacao
              /\ catalog'[n + k].canal = df[k].canal
              /\ catalog'[n + k].bandeira = df[k].bandeira
              /\ catalog'[n + k].parcela_de = df[k].parcela_de
              /\ catalog'[n + k].parcela_ate = df[k].parcela_ate
              /\ catalog'[n + k].mdr = df[k].mdr
              /\ catalog'[n + k].prazo_recebimento = df[k].prazo_recebimento
              /\ catalog'[n + k].taxa_antecipacao = df[k].taxa_antecipacao

\* the step is the write of a commit that overlapped no other
EscritaSemSobreposicao ==
    /\ Len(commits') = Len(commits) + 1
    /\ ~commits'[Len(commits')].sobreposto

\* C9 as amended: the write of a commit that overlapped no other appends (the
\* old rows stay, n rows with one plan name, fingerprint and creation time
\* follow), and every step that changes the workbook is a commit's write; only
\* the write of an overlapping commit may drop rows.
C9_AppendOnly ==
    [][ /\ EscritaSemSobreposicao => \E s \in Sessions : AnexaLinhas(s)
        /\ catalog' # catalog => \E s \in Sessions : pc[s] = "escreve" /\ pc'[s] = "idle" ]_vars

\* C9 as stated: the same, and no step at all updates or deletes a row that
\* is in the workbook
C9_Original ==
    [][ /\ EscritaSemSobreposicao => \E s \in Sessions : AnexaLinhas(s)
        /\ Len(catalog') >= Len(catalog)
        /\ SubSeq(catalog', 1, Len(catalog)) = catalog ]_vars

\* a commit of two records that overlapped no other was appended to a workbook
\* that already held a plan
C9_Witness ==
    /\ Len(commits) = 2
    /\ ~commits[2].sobreposto
    /\ Len(commits[2].linhas) = 2
    /\ catalog = commits[1].linhas \o commits[2].linhas
    /\ commits[2].linhas[1].data_criacao = commits[2].linhas[2].data_criacao
    /\ commits[2].linhas[1].data_criacao # commits[1].linhas[1].data_criacao

\* C10: with script runs that do not overlap, starting from an empty workbook,
\* no two distinct plan names have the same first-seen fingerprint and no row
\* carries the empty fingerprint.
C10_DuplicateFree ==
    /\ \A i, j \in 1..Len(catalog) :
          (PrimeiraDoNome(i) /\ PrimeiraDoNome(j) /\ i # j)
             => catalog[i].hash_plano # catalog[j].hash_plano
    /\ \A i \in 1..Len(catalog) : catalog[i].hash_plano # ""

\* a plan name was reused for a second commit with another fingerprint, and a
\* session that then uploaded the first table was told the plan exists
C10_Witness ==
    /\ Len(commits) = 2
    /\ commits[1].plan_name = commits[2].plan_name
    /\ commits[1].hash_plano # commits[2].hash_plano
    /\ mensagem = MsgMatch

====
